---------------------------- MODULE Spec2Model ----------------------------
(***************************************************************************)
(* Release enrichment pipeline of scripts/gather.ts: paginated fetch of    *)
(* the release listing, normalisation (processReleases), chronological     *)
(* sort, enrichment with three secondary lookups per release, CSV export.  *)
(*                                                                         *)
(* JavaScript strings are sequences of one-character strings; the absent   *)
(* value (null / undefined) of a string field is Null.  A number-or-null   *)
(* field is <<>> for null and <<n>> for the number n.                      *)
(***************************************************************************)
EXTENDS Integers, Sequences, FiniteSets, TLC

VARIABLES
  pc,           \* position of main / of the function it awaits
  repo,         \* index into repos of the repository being processed
  page,         \* fetchReleases: local page counter
  fetched,      \* fetchReleases: local array `releases`
  pageLog,      \* history: page numbers requested by the current fetchReleases
  served,       \* history: bodies of the page responses it received
  rawReleases,  \* main: rawReleases of the current repository
  releases,     \* main: processed (then sorted, then enriched) releases
  i,            \* enrichReleaseDetails: loop index (0-based as in the code)
  issueWin,     \* history: window of the last closed-issue search
  allReleases,  \* main: accumulated releases of all repositories
  inflight,     \* the outstanding HTTP request, NoReq when there is none
  status,       \* outcome of the last HTTP response
  failures,     \* number of failed / malformed responses so far
  output,       \* the written CSV file, NotWritten before writeFileSync
  rawLog,       \* history: the array fetchReleases returned, per repository
  trace,        \* history: lookups and delays of the current enrichment
  outstanding,  \* HTTP requests sent and not yet answered
  currTag,      \* computeReleaseFlags called alone: argument currTag
  prevTag,      \* computeReleaseFlags called alone: argument prevTag
  flags,        \* computeReleaseFlags called alone: result
  cpc           \* computeReleaseFlags called alone: position

vars == <<pc, repo, page, fetched, pageLog, served, rawReleases, releases, i,
          issueWin, allReleases, inflight, status, failures, output,
          rawLog, trace, outstanding, currTag, prevTag, flags, cpc>>

pipeVars == <<pc, repo, page, fetched, pageLog, served, rawReleases, releases,
              i, issueWin, allReleases, inflight, status, failures, output,
              rawLog, trace, outstanding>>

classVars == <<currTag, prevTag, flags, cpc>>

(***************************************************************************)
(* Bounds of the model.                                                    *)
(***************************************************************************)
\* the server puts at most PageCap releases on one page of the listing
PageCap == 2
\* at most MaxFailures responses of one run are non-success or malformed
MaxFailures == 2
\* version components of the generated tags range over 0..MaxVer
MaxVer == 1
\* the generated release names have at most MaxStr characters
MaxStr == 2

(***************************************************************************)
(* JavaScript values.                                                      *)
(***************************************************************************)
Null == <<"null">>
NullNum == <<>>
Num(n) == <<n>>
\* an optional boolean or object: <<>> when absent, <<v>> when present
None == <<>>
Some(v) == <<v>>
\* !v for a string-or-null value
Falsy(v) == v = Null \/ v = <<>>

Digits == <<"0", "1", "2", "3", "4", "5", "6", "7", "8", "9">>
IsDigit(c) == \E d \in 1..Len(Digits) : Digits[d] = c
DigitVal(c) == (CHOOSE d \in 1..Len(Digits) : Digits[d] = c) - 1

\* Number(s[p..q]) for a run of decimal digits
RECURSIVE DecimalValue(_, _, _)
DecimalValue(s, p, q) ==
  IF q < p THEN 0 ELSE DecimalValue(s, p, q - 1) * Len(Digits) + DigitVal(s[q])

\* String(n) for a natural number
RECURSIVE NumStr(_)
NumStr(n) ==
  IF n < Len(Digits) THEN <<Digits[n + 1]>>
  ELSE NumStr(n \div Len(Digits)) \o <<Digits[(n % Len(Digits)) + 1]>>

\* String(n) for an integer
IntStr(n) == IF n < 0 THEN <<"-">> \o NumStr(0 - n) ELSE NumStr(n)

\* String(b) for a boolean
BoolStr(b) ==
  IF b THEN <<"t", "r", "u", "e">> ELSE <<"f", "a", "l", "s", "e">>

(***************************************************************************)
(* Version Classifier: parseVersionTag, computeReleaseFlags.               *)
(***************************************************************************)
\* index of the last character of the longest digit run starting at p
\* (p - 1 when there is no digit at p): a greedy \d+
RunEnd(s, p) ==
  CHOOSE q \in (p - 1)..Len(s) :
    /\ \A k \in p..q : IsDigit(s[k])
    /\ (q = Len(s) \/ ~IsDigit(s[q + 1]))

\* (\d+)\.(\d+)\.(\d+) anchored at p: the three captured numbers, or Null
BodyAt(s, p) ==
  LET e1 == RunEnd(s, p)
      e2 == RunEnd(s, e1 + 2)
      e3 == RunEnd(s, e2 + 2)
  IN IF /\ e1 >= p
        /\ e1 + 1 <= Len(s) /\ s[e1 + 1] = "."
        /\ e2 >= e1 + 2
        /\ e2 + 1 <= Len(s) /\ s[e2 + 1] = "."
        /\ e3 >= e2 + 2
     THEN <<DecimalValue(s, p, e1), DecimalValue(s, e1 + 2, e2),
            DecimalValue(s, e2 + 2, e3)>>
     ELSE Null

\* v?(\d+)\.(\d+)\.(\d+) anchored at p: the optional v is tried first
MatchAt(s, p) ==
  IF p <= Len(s) /\ s[p] = "v" /\ BodyAt(s, p + 1) # Null
  THEN BodyAt(s, p + 1)
  ELSE BodyAt(s, p)

\* tag.match(/v?(\d+)\.(\d+)\.(\d+)/): the leftmost match, mapped to numbers
parseVersionTag(tag) ==
  LET starts == {p \in 1..Len(tag) : MatchAt(tag, p) # Null}
  IN IF starts = {} THEN Null
     ELSE MatchAt(tag, CHOOSE p \in starts : \A q \in starts : p <= q)

Flags(major, minor, patch) ==
  [is_major_release |-> major, is_minor_release |-> minor,
   is_patch_release |-> patch]

NoFlags == Flags(FALSE, FALSE, FALSE)

\* a slip: every differing component sets its own flag
computeReleaseFlags_independent(curr_tag, prev_tag) ==
  IF Falsy(curr_tag) THEN NoFlags
  ELSE LET curr == parseVersionTag(curr_tag) IN
    IF curr = Null THEN NoFlags
    ELSE IF Falsy(prev_tag) THEN Flags(TRUE, FALSE, FALSE)
    ELSE LET prev == parseVersionTag(prev_tag) IN
      IF prev = Null THEN NoFlags
      ELSE Flags(curr[1] # prev[1], curr[2] # prev[2], curr[3] # prev[3])

\* a slip: the minor component is compared before the major one
computeReleaseFlags_minorFirst(curr_tag, prev_tag) ==
  IF Falsy(curr_tag) THEN NoFlags
  ELSE LET curr == parseVersionTag(curr_tag) IN
    IF curr = Null THEN NoFlags
    ELSE IF Falsy(prev_tag) THEN Flags(TRUE, FALSE, FALSE)
    ELSE LET prev == parseVersionTag(prev_tag) IN
      IF prev = Null THEN NoFlags
      ELSE IF curr[2] # prev[2] THEN Flags(FALSE, TRUE, FALSE)
      ELSE IF curr[1] # prev[1] THEN Flags(TRUE, FALSE, FALSE)
      ELSE IF curr[3] # prev[3] THEN Flags(FALSE, FALSE, TRUE)
      ELSE NoFlags

\* a slip: the no-predecessor rule is applied before the current tag is parsed
computeReleaseFlags_baselineFirst(curr_tag, prev_tag) ==
  IF Falsy(curr_tag) THEN NoFlags
  ELSE IF Falsy(prev_tag) THEN Flags(TRUE, FALSE, FALSE)
  ELSE LET curr == parseVersionTag(curr_tag) IN
    IF curr = Null THEN NoFlags
    ELSE LET prev == parseVersionTag(prev_tag) IN
      IF prev = Null THEN NoFlags
      ELSE IF curr[1] # prev[1] THEN Flags(TRUE, FALSE, FALSE)
      ELSE IF curr[2] # prev[2] THEN Flags(FALSE, TRUE, FALSE)
      ELSE IF curr[3] # prev[3] THEN Flags(FALSE, FALSE, TRUE)
      ELSE NoFlags

computeReleaseFlags(curr_tag, prev_tag) ==
  IF Falsy(curr_tag) THEN NoFlags
  ELSE LET curr == parseVersionTag(curr_tag) IN
    IF curr = Null THEN NoFlags
    ELSE IF Falsy(prev_tag) THEN Flags(TRUE, FALSE, FALSE)
    ELSE LET prev == parseVersionTag(prev_tag) IN
      IF prev = Null THEN NoFlags
      ELSE IF curr[1] # prev[1] THEN Flags(TRUE, FALSE, FALSE)
      ELSE IF curr[2] # prev[2] THEN Flags(FALSE, TRUE, FALSE)
      ELSE IF curr[3] # prev[3] THEN Flags(FALSE, FALSE, TRUE)
      ELSE NoFlags

(***************************************************************************)
(* Tags the classifier is called with when it is exercised alone.          *)
(***************************************************************************)
FormatTag(prefix, a, b, c) ==
  prefix \o NumStr(a) \o <<".">> \o NumStr(b) \o <<".">> \o NumStr(c)

VersionTags ==
  {FormatTag(pre, a, b, c) :
     pre \in {<<>>, <<"v">>}, a \in 0..MaxVer, b \in 0..MaxVer, c \in 0..MaxVer}

OtherTags ==
  { <<>>,
    <<"l", "a", "t", "e", "s", "t">>,
    <<"1", ".", "2">>,
    <<"v", "1", ".", "2", ".", "x">>,
    <<"1", ".", ".", "2", ".", "3">>,
    <<"v", "1", "0", ".", "0", ".", "1">>,
    <<"1", ".", "9", ".", "9">>,
    <<"r", "-", "1", ".", "0", ".", "1", "-", "r", "c", "2">>,
    <<"v", "v", "0", ".", "1", ".", "0", ".", "7">> }

Tags == VersionTags \cup OtherTags

InitClassify ==
  /\ currTag \in Tags \cup {Null}
  /\ prevTag \in Tags \cup {Null}
  /\ flags = NoFlags
  /\ cpc = "call"
  /\ pc = "off"
  /\ repo = 0 /\ page = 0 /\ i = 0 /\ failures = 0
  /\ fetched = <<>> /\ pageLog = <<>> /\ served = <<>>
  /\ rawReleases = <<>> /\ releases = <<>> /\ allReleases = <<>>
  /\ issueWin = <<>>
  /\ inflight = [kind |-> "none"]
  /\ status = "none"
  /\ output = [written |-> FALSE, text |-> <<>>]
  /\ rawLog = <<>> /\ trace = <<>> /\ outstanding = 0

Classify ==
  /\ cpc = "call"
  /\ flags' = computeReleaseFlags(currTag, prevTag)
  /\ cpc' = "ret"
  /\ UNCHANGED <<currTag, prevTag>>
  /\ UNCHANGED pipeVars

NextClassify == Classify

SpecClassify == InitClassify /\ [][NextClassify]_vars

(***************************************************************************)
(* The hosting platform: the releases each repository can list, and the    *)
(* counts the compare and search endpoints answer with.                    *)
(***************************************************************************)
repos ==
  << [owner |-> "daangn", repo |-> "stackflow"],
     [owner |-> "daangn", repo |-> "seed-design"] >>

NumRepos == Len(repos)

\* a published_at string: its first ten characters name the calendar day
\* `day`, and it denotes the instant day*24 + hour - off (in hours)
Stamp(d, h, o) == [day |-> d, hour |-> h, off |-> o]

\* published_at: null, as the listing has it for a release not yet published
NullStamp == [null |-> TRUE]

\* the text of a timestamp; its day part stands for YYYY-MM-DD
StampStr(t) ==
  NumStr(t.day) \o <<"T">> \o NumStr(t.hour) \o <<"+">> \o NumStr(t.off)

\* the fields of a raw release no lookup depends on, all present ...
Detailed ==
  [name |-> <<"r", " ", "\"", "A", "\"">>,
   draft |-> Some(FALSE),
   prerelease |-> Some(TRUE),
   author |-> Some([login |-> <<"b", "o", "t">>]),
   created_at |-> Stamp(1, 2, 0),
   body |-> <<"a", ",", "b">>,
   assets |-> Some(<<[size |-> Num(5), download_count |-> Num(2)],
                     [size |-> NullNum, download_count |-> Num(1)]>>)]

\* ... and all absent
Bare ==
  [name |-> Null, draft |-> None, prerelease |-> None, author |-> None,
   created_at |-> Stamp(3, 0, 0), body |-> Null, assets |-> None]

\* ... and those of a draft
Draft == [Bare EXCEPT !.draft = Some(TRUE)]

Raw(id, tag, published, target, rest) ==
  [id |-> id, tag_name |-> tag, published_at |-> published,
   target_commitish |-> target] @@ rest

RefMain == <<"m", "a", "i", "n">>
RefDev == <<"d", "e", "v">>

Catalog(r) ==
  IF r = 1
  THEN { Raw(1, FormatTag(<<"v">>, 1, 0, 0), Stamp(1, 10, 0), RefMain, Detailed),
         Raw(2, FormatTag(<<"v">>, 1, 1, 0), Stamp(8, 9, 0), RefDev, Bare),
         Raw(3, FormatTag(<<"v">>, 1, 1, 1), Stamp(8, 11, 2), RefMain, Detailed),
         Raw(5, FormatTag(<<"v">>, 1, 2, 0), NullStamp, RefMain, Draft) }
  ELSE { Raw(1, Null, Stamp(2, 1, 5), Null, Bare),
         Raw(4, FormatTag(<<>>, 2, 0, 0), Stamp(1, 23, 0), RefMain, Detailed) }

\* the bodies a page of the listing of repository r can have after the
\* releases in `seen` were served: up to PageCap further releases
Chunks(r, seen) ==
  LET rest == {x \in Catalog(r) : \A k \in 1..Len(seen) : seen[k] # x}
  IN UNION { {c \in [1..n -> rest] : \A a, b \in 1..n : a # b => c[a] # c[b]} :
             n \in 1..PageCap }

\* total_commits of GET compare/base...head
ServerCommits(base, head) == IF base = head THEN 0 ELSE Len(base) + Len(head)

\* total_count of the search for items of `type` closed in start..end
ServerClosed(start, end, type) ==
  (end - start + 1) + (IF type = "pr" THEN 1 ELSE 0)

(***************************************************************************)
(* Release Normalizer and Chronological Sequencer.                         *)
(***************************************************************************)
\* new Date(published_at).getTime(); new Date(null) is the epoch
GetTime(published) ==
  IF published = NullStamp THEN 0
  ELSE published.day * 24 + published.hour - published.off

\* published_at.slice(0, 10)
DateOf(published) == published.day

\* new Date(date).getTime() for a YYYY-MM-DD string: midnight UTC of the day
DayTime(date) == date * 24

\* differenceInDays(later, earlier): full days, truncated towards zero
differenceInDays(later, earlier) ==
  LET d == GetTime(later) - GetTime(earlier)
  IN IF d >= 0 THEN d \div 24 ELSE 0 - ((0 - d) \div 24)

\* getDay(date): day 0 of the model's calendar is a Sunday
getDay(date) == (GetTime(date) \div 24) % 7

\* getHours(date)
getHours(date) == GetTime(date) % 24

RECURSIVE SumOf(_, _)
\* assets.reduce((acc, a) => acc + (a[field] ?? 0), 0)
SumOf(assets, field) ==
  IF assets = <<>> THEN 0
  ELSE LET a == assets[Len(assets)]
       IN SumOf(SubSeq(assets, 1, Len(assets) - 1), field)
            + (IF a[field] = NullNum THEN 0 ELSE a[field][1])

processReleases(raw) ==
  [k \in 1..Len(raw) |->
    LET r == raw[k]
        prev_tag == IF k > 1 THEN raw[k - 1].tag_name ELSE Null
        fl == computeReleaseFlags(r.tag_name, prev_tag)
        assets == IF r.assets = None THEN <<>> ELSE r.assets[1]
    IN [id |-> r.id,
        tag_name |-> r.tag_name,
        name |-> IF r.name = Null THEN <<>> ELSE r.name,
        draft |-> IF r.draft = None THEN FALSE ELSE r.draft[1],
        prerelease |-> IF r.prerelease = None THEN FALSE ELSE r.prerelease[1],
        author_login |-> IF r.author = None THEN <<>> ELSE r.author[1].login,
        created_at |-> r.created_at,
        published_at |-> r.published_at,
        body_length |-> IF Falsy(r.body) THEN 0 ELSE Len(r.body),
        num_assets |-> Len(assets),
        total_asset_size |-> SumOf(assets, "size"),
        total_asset_downloads |-> SumOf(assets, "download_count"),
        target_commitish |->
          IF r.target_commitish = Null THEN <<>> ELSE r.target_commitish,
        days_to_publish |-> differenceInDays(r.published_at, r.created_at),
        release_day_of_week |-> getDay(r.published_at),
        release_hour |-> getHours(r.published_at),
        first_release_flag |-> (k = 1),
        is_major_release |-> fl.is_major_release,
        is_minor_release |-> fl.is_minor_release,
        is_patch_release |-> fl.is_patch_release,
        num_commits_since_last_release |-> NullNum,
        num_issues_closed |-> NullNum,
        num_pull_requests |-> NullNum]]

\* x put behind every element of the sorted s that compares <= x
InsertAfterEqual(s, x) ==
  LET n == Cardinality({k \in 1..Len(s) :
                          GetTime(s[k].published_at) - GetTime(x.published_at) <= 0})
  IN SubSeq(s, 1, n) \o <<x>> \o SubSeq(s, n + 1, Len(s))

\* a slip: x put in front of the elements that compare equal to it
InsertBeforeEqual(s, x) ==
  LET n == Cardinality({k \in 1..Len(s) :
                          GetTime(s[k].published_at) - GetTime(x.published_at) < 0})
  IN SubSeq(s, 1, n) \o <<x>> \o SubSeq(s, n + 1, Len(s))

\* a slip: an unstable sort
RECURSIVE SortByPublished_unstable(_)
SortByPublished_unstable(rs) ==
  IF rs = <<>> THEN <<>>
  ELSE InsertBeforeEqual(SortByPublished_unstable(SubSeq(rs, 1, Len(rs) - 1)),
                         rs[Len(rs)])

\* releases.sort((a, b) => time(a) - time(b)): Array.prototype.sort is stable
RECURSIVE SortByPublished(_)
SortByPublished(rs) ==
  IF rs = <<>> THEN <<>>
  ELSE InsertAfterEqual(SortByPublished(SubSeq(rs, 1, Len(rs) - 1)), rs[Len(rs)])

(***************************************************************************)
(* Release Enricher: the arguments of the three lookups of releases[k],    *)
(* k counted from 0 as in the code.                                        *)
(***************************************************************************)
\* a slip: the base is always the release's own ref
baseCommit_own(rs, k) == rs[k + 1].target_commitish

baseCommit(rs, k) ==
  IF k > 0 THEN rs[k].target_commitish ELSE rs[k + 1].target_commitish

headCommit(rs, k) == rs[k + 1].target_commitish

endDate(rs, k) == DateOf(rs[k + 1].published_at)

\* a slip: the reversed window is not clamped
startDate_unclamped(rs, k) ==
  IF k > 0 THEN DateOf(rs[k].published_at) ELSE DateOf(rs[k + 1].published_at)

startDate(rs, k) ==
  LET start == IF k > 0 THEN DateOf(rs[k].published_at)
               ELSE DateOf(rs[k + 1].published_at)
  IN IF DayTime(start) > DayTime(endDate(rs, k)) THEN endDate(rs, k) ELSE start

(***************************************************************************)
(* Tabular Exporter.                                                       *)
(***************************************************************************)
headers ==
  <<"id", "tag_name", "name", "draft", "prerelease", "author_login",
    "created_at", "published_at", "body_length", "num_assets",
    "total_asset_size", "total_asset_downloads", "target_commitish",
    "days_to_publish", "release_day_of_week", "release_hour",
    "first_release_flag", "is_major_release", "is_minor_release",
    "is_patch_release", "num_commits_since_last_release",
    "num_issues_closed", "num_pull_requests">>

StringColumns == {"tag_name", "name", "author_login", "target_commitish"}
StampColumns == {"created_at", "published_at"}
BoolColumns ==
  {"draft", "prerelease", "first_release_flag", "is_major_release",
   "is_minor_release", "is_patch_release"}
NullableColumns ==
  {"num_commits_since_last_release", "num_issues_closed", "num_pull_requests"}

\* the text of a column name, kept whole (it holds no comma and no quote)
HeaderStr(h) == <<h>>

RECURSIVE DoubleQuotes(_)
\* v.replace(/"/g, '""')
DoubleQuotes(v) ==
  IF v = <<>> THEN <<>>
  ELSE (IF v[1] = "\"" THEN <<"\"", "\"">> ELSE <<v[1]>>) \o DoubleQuotes(Tail(v))

\* a slip: the quotes inside the value are left single
Quoted_plain(v) == <<"\"">> \o v \o <<"\"">>

\* typeof v === 'string': the value in quotes, its quotes doubled
Quoted(v) == <<"\"">> \o DoubleQuotes(v) \o <<"\"">>

\* the text of one cell: strings are quoted, null and undefined are empty,
\* numbers and booleans are converted by join
Cell(r, h) ==
  IF h \in StringColumns THEN (IF r[h] = Null THEN <<>> ELSE Quoted(r[h]))
  ELSE IF h \in StampColumns
    THEN IF r[h] = NullStamp THEN <<>> ELSE Quoted(StampStr(r[h]))
  ELSE IF h \in BoolColumns THEN BoolStr(r[h])
  ELSE IF h \in NullableColumns
    THEN (IF r[h] = NullNum THEN <<>> ELSE IntStr(r[h][1]))
  ELSE IntStr(r[h])

RECURSIVE Join(_, _)
\* parts.join(sep)
Join(parts, sep) ==
  IF parts = <<>> THEN <<>>
  ELSE IF Len(parts) = 1 THEN parts[1]
  ELSE parts[1] \o <<sep>> \o Join(Tail(parts), sep)

\* a slip: a release whose id an earlier row already has is left out
toCSV_dedupe(rs) ==
  LET keep == SelectSeq([k \in 1..Len(rs) |-> k],
                        LAMBDA k : \A j \in 1..(k - 1) : rs[j].id # rs[k].id)
      lines == <<Join([h \in 1..Len(headers) |-> HeaderStr(headers[h])], ",")>>
                 \o [k \in 1..Len(keep) |->
                       Join([h \in 1..Len(headers) |-> Cell(rs[keep[k]], headers[h])], ",")]
  IN Join(lines, "\n")

\* one header line, then one line per release in input order
toCSV(rs) ==
  LET lines == <<Join([h \in 1..Len(headers) |-> HeaderStr(headers[h])], ",")>>
                 \o [k \in 1..Len(rs) |->
                       Join([h \in 1..Len(headers) |-> Cell(rs[k], headers[h])], ",")]
  IN Join(lines, "\n")

(***************************************************************************)
(* toCSV called alone, on one record whose name, tag and commit count are  *)
(* drawn from small sets.                                                  *)
(***************************************************************************)
\* the characters of the generated strings: a letter, the delimiter, a quote
Alphabet == {"a", ",", "\""}

Strings == UNION {[1..n -> Alphabet] : n \in 0..MaxStr}

InitExport ==
  /\ \E name \in Strings, tag \in {Null, <<>>, <<"\"", ",">>},
        count \in {NullNum, Num(0), Num(12)} :
       releases =
         <<[processReleases(<<Raw(1, tag, Stamp(1, 10, 0), RefMain,
                                  [Detailed EXCEPT !.name = name])>>)[1]
              EXCEPT !.num_commits_since_last_release = count]>>
  /\ output = [written |-> FALSE, text |-> <<>>]
  /\ cpc = "export"
  /\ pc = "off"
  /\ repo = 0 /\ page = 0 /\ i = 0 /\ failures = 0
  /\ fetched = <<>> /\ pageLog = <<>> /\ served = <<>>
  /\ rawReleases = <<>> /\ allReleases = <<>>
  /\ issueWin = <<>>
  /\ inflight = [kind |-> "none"]
  /\ status = "none"
  /\ rawLog = <<>> /\ trace = <<>> /\ outstanding = 0
  /\ currTag = Null /\ prevTag = Null /\ flags = NoFlags

\* const csv = toCSV(releases)
Export ==
  /\ cpc = "export"
  /\ output' = [written |-> FALSE, text |-> toCSV(releases)]
  /\ cpc' = "exported"
  /\ UNCHANGED <<pc, repo, page, fetched, pageLog, served, rawReleases,
                 releases, i, issueWin, allReleases, inflight, status,
                 failures, rawLog, trace, outstanding>>
  /\ UNCHANGED <<currTag, prevTag, flags>>

NextExport == Export

SpecExport == InitExport /\ [][NextExport]_vars

(***************************************************************************)
(* The run of main.                                                        *)
(***************************************************************************)
NoReq == [kind |-> "none"]

Init ==
  /\ pc = "repo"
  /\ repo = 1
  /\ page = 0
  /\ fetched = <<>>
  /\ pageLog = <<>>
  /\ served = <<>>
  /\ rawReleases = <<>>
  /\ releases = <<>>
  /\ i = 0
  /\ issueWin = <<>>
  /\ allReleases = <<>>
  /\ inflight = NoReq
  /\ status = "none"
  /\ failures = 0
  /\ output = [written |-> FALSE, text |-> <<>>]
  /\ rawLog = <<>>
  /\ trace = <<>>
  /\ outstanding = 0
  /\ currTag = Null /\ prevTag = Null /\ flags = NoFlags /\ cpc = "off"

\* for (const {owner, repo} of repos): fetchReleases is entered
StartRepo ==
  /\ pc = "repo"
  /\ repo <= NumRepos
  /\ fetched' = <<>>
  /\ page' = 1
  /\ pageLog' = <<>>
  /\ served' = <<>>
  /\ pc' = "page"
  /\ UNCHANGED <<repo, rawReleases, releases, i, issueWin, allReleases,
                 inflight, status, failures, output>>
  /\ UNCHANGED <<rawLog, trace, outstanding>>
  /\ UNCHANGED classVars

\* fetchReleases: await fetch(...&page=${page})
PageRequest ==
  /\ pc = "page"
  /\ inflight' = [kind |-> "page", repo |-> repo, page |-> page]
  /\ pageLog' = Append(pageLog, page)
  /\ pc' = "page_wait"
  /\ outstanding' = outstanding + 1
  /\ UNCHANGED <<repo, page, fetched, served, rawReleases, releases, i,
                 issueWin, allReleases, status, failures, output>>
  /\ UNCHANGED <<rawLog, trace>>
  /\ UNCHANGED classVars

\* a slip: the failed page is taken for the end of the listing
PageFail_swallow ==
  /\ pc = "page_wait"
  /\ failures < MaxFailures
  /\ failures' = failures + 1
  /\ status' = "fail"
  /\ inflight' = NoReq
  /\ rawReleases' = fetched
  /\ page' = 0
  /\ pc' = "process"
  /\ outstanding' = outstanding - 1
  /\ UNCHANGED <<repo, fetched, pageLog, served, releases, i, issueWin,
                 allReleases, output>>
  /\ UNCHANGED <<rawLog, trace>>
  /\ UNCHANGED classVars

\* fetchReleases: !res.ok throws; nothing catches it and the run ends
PageFail ==
  /\ pc = "page_wait"
  /\ failures < MaxFailures
  /\ failures' = failures + 1
  /\ status' = "fail"
  /\ inflight' = NoReq
  /\ pc' = "aborted"
  /\ outstanding' = outstanding - 1
  /\ UNCHANGED <<repo, page, fetched, pageLog, served, rawReleases, releases,
                 i, issueWin, allReleases, output>>
  /\ UNCHANGED <<rawLog, trace>>
  /\ UNCHANGED classVars

\* fetchReleases: a success response whose body is no array throws as well
PageMalformed ==
  /\ pc = "page_wait"
  /\ failures < MaxFailures
  /\ failures' = failures + 1
  /\ status' = "malformed"
  /\ inflight' = NoReq
  /\ pc' = "aborted"
  /\ outstanding' = outstanding - 1
  /\ UNCHANGED <<repo, page, fetched, pageLog, served, rawReleases, releases,
                 i, issueWin, allReleases, output>>
  /\ UNCHANGED <<rawLog, trace>>
  /\ UNCHANGED classVars

\* a slip: the page counter is advanced twice
PageData_skip ==
  /\ pc = "page_wait"
  /\ \E data \in Chunks(repo, fetched) :
       /\ fetched' = fetched \o data
       /\ served' = Append(served, data)
  /\ page' = page + 2
  /\ status' = "ok"
  /\ inflight' = NoReq
  /\ pc' = "page"
  /\ outstanding' = outstanding - 1
  /\ UNCHANGED <<repo, pageLog, rawReleases, releases, i, issueWin,
                 allReleases, failures, output>>
  /\ UNCHANGED <<rawLog, trace>>
  /\ UNCHANGED classVars

\* fetchReleases: a non-empty page is appended and the next page is asked for
PageData ==
  /\ pc = "page_wait"
  /\ \E data \in Chunks(repo, fetched) :
       /\ fetched' = fetched \o data
       /\ served' = Append(served, data)
  /\ page' = page + 1
  /\ status' = "ok"
  /\ inflight' = NoReq
  /\ pc' = "page"
  /\ outstanding' = outstanding - 1
  /\ UNCHANGED <<repo, pageLog, rawReleases, releases, i, issueWin,
                 allReleases, failures, output>>
  /\ UNCHANGED <<rawLog, trace>>
  /\ UNCHANGED classVars

\* fetchReleases: an empty page ends the loop; main receives the array
PageEmpty ==
  /\ pc = "page_wait"
  /\ served' = Append(served, <<>>)
  /\ rawReleases' = fetched
  /\ page' = 0
  /\ status' = "ok"
  /\ inflight' = NoReq
  /\ pc' = "process"
  /\ rawLog' = Append(rawLog, fetched)
  /\ outstanding' = outstanding - 1
  /\ UNCHANGED <<repo, fetched, pageLog, releases, i, issueWin, allReleases,
                 failures, output>>
  /\ UNCHANGED trace
  /\ UNCHANGED classVars

\* main: let releases = processReleases(rawReleases, owner, repo)
Process ==
  /\ pc = "process"
  /\ releases' = processReleases(rawReleases)
  /\ pc' = "sort"
  /\ UNCHANGED <<repo, page, fetched, pageLog, served, rawReleases, i,
                 issueWin, allReleases, inflight, status, failures, output>>
  /\ UNCHANGED <<rawLog, trace, outstanding>>
  /\ UNCHANGED classVars

\* main: releases.sort(...); enrichReleaseDetails is entered
Sort ==
  /\ pc = "sort"
  /\ releases' = SortByPublished(releases)
  /\ i' = 0
  /\ pc' = "enrich"
  /\ trace' = <<>>
  /\ UNCHANGED <<repo, page, fetched, pageLog, served, rawReleases, issueWin,
                 allReleases, inflight, status, failures, output>>
  /\ UNCHANGED <<rawLog, outstanding>>
  /\ UNCHANGED classVars

\* prev.published_at.slice / curr.published_at.slice of iteration k, with
\* published_at null: a TypeError
SliceThrows(rs, k) ==
  \/ rs[k + 1].published_at = NullStamp
  \/ (k > 0 /\ rs[k].published_at = NullStamp)

\* enrichReleaseDetails: the TypeError leaves the loop, enrichReleaseDetails
\* and main; nothing catches it and the run ends
EnrichCrash ==
  /\ pc = "enrich"
  /\ i < Len(releases)
  /\ SliceThrows(releases, i)
  /\ pc' = "crashed"
  /\ UNCHANGED <<repo, page, fetched, pageLog, served, rawReleases, releases,
                 i, issueWin, allReleases, inflight, status, failures, output>>
  /\ UNCHANGED <<rawLog, trace, outstanding>>
  /\ UNCHANGED classVars

\* a slip: the compare request is sent although a ref is empty
CommitSkip_request ==
  /\ pc = "enrich"
  /\ i < Len(releases)
  /\ ~SliceThrows(releases, i)
  /\ (baseCommit(releases, i) = <<>> \/ headCommit(releases, i) = <<>>)
  /\ inflight' = [kind |-> "compare", repo |-> repo,
                  base |-> baseCommit(releases, i),
                  head |-> headCommit(releases, i)]
  /\ pc' = "commit_wait"
  /\ trace' = Append(trace, [op |-> "compare", i |-> i, sent |-> TRUE])
  /\ outstanding' = outstanding + 1
  /\ UNCHANGED <<repo, page, fetched, pageLog, served, rawReleases, releases,
                 i, issueWin, allReleases, status, failures, output>>
  /\ UNCHANGED rawLog
  /\ UNCHANGED classVars

\* fetchCommitCount: if (!base || !head) return 0, without a request
CommitSkip ==
  /\ pc = "enrich"
  /\ i < Len(releases)
  /\ ~SliceThrows(releases, i)
  /\ (baseCommit(releases, i) = <<>> \/ headCommit(releases, i) = <<>>)
  /\ releases' =
       [releases EXCEPT ![i + 1].num_commits_since_last_release = Num(0)]
  /\ pc' = "issue"
  /\ trace' = Append(trace, [op |-> "compare", i |-> i, sent |-> FALSE])
  /\ UNCHANGED <<repo, page, fetched, pageLog, served, rawReleases, i,
                 issueWin, allReleases, inflight, status, failures, output>>
  /\ UNCHANGED <<rawLog, outstanding>>
  /\ UNCHANGED classVars

\* fetchCommitCount: await fetch(.../compare/${base}...${head})
CommitRequest ==
  /\ pc = "enrich"
  /\ i < Len(releases)
  /\ ~SliceThrows(releases, i)
  /\ baseCommit(releases, i) # <<>>
  /\ headCommit(releases, i) # <<>>
  /\ inflight' = [kind |-> "compare", repo |-> repo,
                  base |-> baseCommit(releases, i),
                  head |-> headCommit(releases, i)]
  /\ pc' = "commit_wait"
  /\ trace' = Append(trace, [op |-> "compare", i |-> i, sent |-> TRUE])
  /\ outstanding' = outstanding + 1
  /\ UNCHANGED <<repo, page, fetched, pageLog, served, rawReleases, releases,
                 i, issueWin, allReleases, status, failures, output>>
  /\ UNCHANGED rawLog
  /\ UNCHANGED classVars

\* fetchCommitCount: return data.total_commits ?? 0
CommitOk ==
  /\ pc = "commit_wait"
  /\ releases' =
       [releases EXCEPT ![i + 1].num_commits_since_last_release =
          Num(ServerCommits(inflight.base, inflight.head))]
  /\ status' = "ok"
  /\ inflight' = NoReq
  /\ pc' = "issue"
  /\ outstanding' = outstanding - 1
  /\ UNCHANGED <<repo, page, fetched, pageLog, served, rawReleases, i,
                 issueWin, allReleases, failures, output>>
  /\ UNCHANGED <<rawLog, trace>>
  /\ UNCHANGED classVars

\* a slip: the failed lookup ends the run
CommitFail_abort ==
  /\ pc = "commit_wait"
  /\ failures < MaxFailures
  /\ failures' = failures + 1
  /\ status' = "fail"
  /\ inflight' = NoReq
  /\ pc' = "aborted"
  /\ outstanding' = outstanding - 1
  /\ UNCHANGED <<repo, page, fetched, pageLog, served, rawReleases, releases,
                 i, issueWin, allReleases, output>>
  /\ UNCHANGED <<rawLog, trace>>
  /\ UNCHANGED classVars

\* fetchCommitCount: !res.ok warns and returns 0
CommitFail ==
  /\ pc = "commit_wait"
  /\ failures < MaxFailures
  /\ failures' = failures + 1
  /\ releases' =
       [releases EXCEPT ![i + 1].num_commits_since_last_release = Num(0)]
  /\ status' = "fail"
  /\ inflight' = NoReq
  /\ pc' = "issue"
  /\ outstanding' = outstanding - 1
  /\ UNCHANGED <<repo, page, fetched, pageLog, served, rawReleases, i,
                 issueWin, allReleases, output>>
  /\ UNCHANGED <<rawLog, trace>>
  /\ UNCHANGED classVars

\* fetchClosedCount(..., startDate, endDate, 'issue'): await fetch(search)
IssueRequest ==
  /\ pc = "issue"
  /\ inflight' = [kind |-> "search", repo |-> repo, type |-> "issue",
                  start |-> startDate(releases, i),
                  end |-> endDate(releases, i)]
  /\ issueWin' = <<startDate(releases, i), endDate(releases, i)>>
  /\ pc' = "issue_wait"
  /\ trace' = Append(trace, [op |-> "issue", i |-> i, sent |-> TRUE])
  /\ outstanding' = outstanding + 1
  /\ UNCHANGED <<repo, page, fetched, pageLog, served, rawReleases, releases,
                 i, allReleases, status, failures, output>>
  /\ UNCHANGED rawLog
  /\ UNCHANGED classVars

\* fetchClosedCount: return data.total_count ?? 0
IssueOk ==
  /\ pc = "issue_wait"
  /\ releases' =
       [releases EXCEPT ![i + 1].num_issues_closed =
          Num(ServerClosed(inflight.start, inflight.end, inflight.type))]
  /\ status' = "ok"
  /\ inflight' = NoReq
  /\ pc' = "pr"
  /\ outstanding' = outstanding - 1
  /\ UNCHANGED <<repo, page, fetched, pageLog, served, rawReleases, i,
                 issueWin, allReleases, failures, output>>
  /\ UNCHANGED <<rawLog, trace>>
  /\ UNCHANGED classVars

\* a slip: the failed search also clears the commit count
IssueFail_clobber ==
  /\ pc = "issue_wait"
  /\ failures < MaxFailures
  /\ failures' = failures + 1
  /\ releases' = [releases EXCEPT ![i + 1].num_issues_closed = Num(0),
                                  ![i + 1].num_commits_since_last_release = NullNum]
  /\ status' = "fail"
  /\ inflight' = NoReq
  /\ pc' = "pr"
  /\ outstanding' = outstanding - 1
  /\ UNCHANGED <<repo, page, fetched, pageLog, served, rawReleases, i,
                 issueWin, allReleases, output>>
  /\ UNCHANGED <<rawLog, trace>>
  /\ UNCHANGED classVars

\* fetchClosedCount: !res.ok warns and returns 0
IssueFail ==
  /\ pc = "issue_wait"
  /\ failures < MaxFailures
  /\ failures' = failures + 1
  /\ releases' = [releases EXCEPT ![i + 1].num_issues_closed = Num(0)]
  /\ status' = "fail"
  /\ inflight' = NoReq
  /\ pc' = "pr"
  /\ outstanding' = outstanding - 1
  /\ UNCHANGED <<repo, page, fetched, pageLog, served, rawReleases, i,
                 issueWin, allReleases, output>>
  /\ UNCHANGED <<rawLog, trace>>
  /\ UNCHANGED classVars

\* a slip: the PR search is sent without awaiting the issue search
PrRequest_eager ==
  /\ pc = "issue_wait"
  /\ inflight' = [kind |-> "search", repo |-> repo, type |-> "pr",
                  start |-> startDate(releases, i),
                  end |-> endDate(releases, i)]
  /\ pc' = "pr_wait"
  /\ trace' = Append(trace, [op |-> "pr", i |-> i, sent |-> TRUE])
  /\ outstanding' = outstanding + 1
  /\ UNCHANGED <<repo, page, fetched, pageLog, served, rawReleases, releases,
                 i, issueWin, allReleases, status, failures, output>>
  /\ UNCHANGED rawLog
  /\ UNCHANGED classVars

\* fetchClosedCount(..., startDate, endDate, 'pr'): await fetch(search)
PrRequest ==
  /\ pc = "pr"
  /\ inflight' = [kind |-> "search", repo |-> repo, type |-> "pr",
                  start |-> startDate(releases, i),
                  end |-> endDate(releases, i)]
  /\ pc' = "pr_wait"
  /\ trace' = Append(trace, [op |-> "pr", i |-> i, sent |-> TRUE])
  /\ outstanding' = outstanding + 1
  /\ UNCHANGED <<repo, page, fetched, pageLog, served, rawReleases, releases,
                 i, issueWin, allReleases, status, failures, output>>
  /\ UNCHANGED rawLog
  /\ UNCHANGED classVars

\* a slip: the next release is taken up without the delay
PrOk_noDelay ==
  /\ pc = "pr_wait"
  /\ releases' =
       [releases EXCEPT ![i + 1].num_pull_requests =
          Num(ServerClosed(inflight.start, inflight.end, inflight.type))]
  /\ status' = "ok"
  /\ inflight' = NoReq
  /\ i' = i + 1
  /\ pc' = "enrich"
  /\ outstanding' = outstanding - 1
  /\ UNCHANGED <<repo, page, fetched, pageLog, served, rawReleases,
                 issueWin, allReleases, failures, output>>
  /\ UNCHANGED <<rawLog, trace>>
  /\ UNCHANGED classVars

\* fetchClosedCount: return data.total_count ?? 0
PrOk ==
  /\ pc = "pr_wait"
  /\ releases' =
       [releases EXCEPT ![i + 1].num_pull_requests =
          Num(ServerClosed(inflight.start, inflight.end, inflight.type))]
  /\ status' = "ok"
  /\ inflight' = NoReq
  /\ pc' = "delay"
  /\ outstanding' = outstanding - 1
  /\ UNCHANGED <<repo, page, fetched, pageLog, served, rawReleases, i,
                 issueWin, allReleases, failures, output>>
  /\ UNCHANGED <<rawLog, trace>>
  /\ UNCHANGED classVars

\* fetchClosedCount: !res.ok warns and returns 0
PrFail ==
  /\ pc = "pr_wait"
  /\ failures < MaxFailures
  /\ failures' = failures + 1
  /\ releases' = [releases EXCEPT ![i + 1].num_pull_requests = Num(0)]
  /\ status' = "fail"
  /\ inflight' = NoReq
  /\ pc' = "delay"
  /\ outstanding' = outstanding - 1
  /\ UNCHANGED <<repo, page, fetched, pageLog, served, rawReleases, i,
                 issueWin, allReleases, output>>
  /\ UNCHANGED <<rawLog, trace>>
  /\ UNCHANGED classVars

\* await new Promise((r) => setTimeout(r, 600)); i++
Delay ==
  /\ pc = "delay"
  /\ i' = i + 1
  /\ pc' = "enrich"
  /\ trace' = Append(trace, [op |-> "delay", i |-> i, sent |-> FALSE])
  /\ UNCHANGED <<repo, page, fetched, pageLog, served, rawReleases, releases,
                 issueWin, allReleases, inflight, status, failures, output>>
  /\ UNCHANGED <<rawLog, outstanding>>
  /\ UNCHANGED classVars

\* enrichReleaseDetails returns; allReleases.push(...releases); next repo
Accumulate ==
  /\ pc = "enrich"
  /\ i >= Len(releases)
  /\ allReleases' = allReleases \o releases
  /\ repo' = repo + 1
  /\ pc' = "repo"
  /\ UNCHANGED <<page, fetched, pageLog, served, rawReleases, releases, i,
                 issueWin, inflight, status, failures, output>>
  /\ UNCHANGED <<rawLog, trace, outstanding>>
  /\ UNCHANGED classVars

\* writeFileSync(outputPath, toCSV(allReleases))
WriteCsv ==
  /\ pc = "repo"
  /\ repo > NumRepos
  /\ output' = [written |-> TRUE, text |-> toCSV(allReleases)]
  /\ pc' = "done"
  /\ UNCHANGED <<repo, page, fetched, pageLog, served, rawReleases, releases,
                 i, issueWin, allReleases, inflight, status, failures>>
  /\ UNCHANGED <<rawLog, trace, outstanding>>
  /\ UNCHANGED classVars

Next ==
  \/ StartRepo
  \/ PageRequest
  \/ PageFail
  \/ PageMalformed
  \/ PageData
  \/ PageEmpty
  \/ Process
  \/ Sort
  \/ EnrichCrash
  \/ CommitSkip
  \/ CommitRequest
  \/ CommitOk
  \/ CommitFail
  \/ IssueRequest
  \/ IssueOk
  \/ IssueFail
  \/ PrRequest
  \/ PrOk
  \/ PrFail
  \/ Delay
  \/ Accumulate
  \/ WriteCsv

Spec == Init /\ [][Next]_vars

(***************************************************************************)
(* Properties.                                                             *)
(***************************************************************************)
\* positions of main at which `releases` is the sorted list of the
\* repository whose raw releases `rawReleases` holds
Sequenced == pc \notin {"off", "process", "sort"}

\* a record as processReleases built it, before enrichment filled it in
Strip(r) ==
  [r EXCEPT !.num_commits_since_last_release = NullNum,
            !.num_issues_closed = NullNum,
            !.num_pull_requests = NullNum]

Enriched(r) ==
  /\ r.num_commits_since_last_release # NullNum
  /\ r.num_issues_closed # NullNum
  /\ r.num_pull_requests # NullNum

FlagsOf(r) ==
  Flags(r.is_major_release, r.is_minor_release, r.is_patch_release)

\* C1: in the sequenced output of a repository every record's three flags
\* are the classification of its tag against the tag of the record just
\* before it in chronological order, the earliest record having no
\* predecessor.
C1_FlagsFollowChronologicalOrder ==
  Sequenced =>
    \A k \in 1..Len(releases) :
      FlagsOf(releases[k]) =
        computeReleaseFlags(releases[k].tag_name,
                            IF k > 1 THEN releases[k - 1].tag_name ELSE Null)

\* C2: in the sequenced output of a non-empty repository exactly one record
\* has first_release_flag set, and it is the record at index 0 of the
\* chronological order.
C2_FirstFlagOnEarliest ==
  (Sequenced /\ releases # <<>>) =>
    /\ Cardinality({k \in 1..Len(releases) : releases[k].first_release_flag}) = 1
    /\ releases[1].first_release_flag

\* C3: a non-success response to any page request ends the run at once:
\* the run is aborted in the very step that receives the response, the
\* output is not written, and an aborted run takes no further step (no
\* request, no repository, no write).
C3_FetchFailureAborts ==
  [][ /\ (pc = "page_wait" /\ status' = "fail" /\ failures' = failures + 1) =>
           /\ pc' = "aborted"
           /\ inflight' = NoReq
           /\ ~output'.written
           /\ UNCHANGED <<repo, releases, allReleases>>
      /\ (pc = "aborted" => UNCHANGED vars) ]_vars

C3_Witness ==
  /\ pc = "aborted"
  /\ status = "fail"
  /\ repo = 2
  /\ Len(pageLog) >= 2
  /\ allReleases # <<>>
  /\ \A k \in 1..Len(allReleases) : Enriched(allReleases[k])
  /\ ~output.written

\* C4: a non-success response to a compare or search lookup records 0 for
\* that one metric of the current release and the run goes on with the next
\* step of the same release; only a page response ever aborts the run, and a
\* run that ends written has performed every lookup of every release.
C4_LookupFailureDegrades ==
  /\ [][ /\ (pc = "commit_wait" /\ failures' = failures + 1) =>
              /\ pc' = "issue"
              /\ releases' = [releases EXCEPT
                                ![i + 1].num_commits_since_last_release = Num(0)]
         /\ (pc = "issue_wait" /\ failures' = failures + 1) =>
              /\ pc' = "pr"
              /\ releases' = [releases EXCEPT ![i + 1].num_issues_closed = Num(0)]
         /\ (pc = "pr_wait" /\ failures' = failures + 1) =>
              /\ pc' = "delay"
              /\ releases' = [releases EXCEPT ![i + 1].num_pull_requests = Num(0)]
         /\ (pc \in {"commit_wait", "issue_wait", "pr_wait"}) =>
              UNCHANGED <<i, repo, allReleases, output>>
         /\ (pc # "aborted" /\ pc' = "aborted") => pc = "page_wait" ]_vars
  /\ [](pc = "done" =>
          /\ output.written
          /\ \A k \in 1..Len(allReleases) : Enriched(allReleases[k]))

C4_Witness ==
  /\ pc = "done"
  /\ failures > 0
  /\ output.written
  /\ \E k \in 1..Len(allReleases) :
       /\ k < Len(allReleases)
       /\ allReleases[k].num_issues_closed = Num(0)
       /\ allReleases[k].num_pull_requests # Num(0)
       /\ allReleases[k + 1].num_issues_closed # Num(0)

RECURSIVE Concat(_)
Concat(ss) == IF ss = <<>> THEN <<>> ELSE ss[1] \o Concat(Tail(ss))

\* C5: fetchReleases asks for pages 1, 2, 3, ... in order, each once, stops
\* at the first empty page, and returns the concatenation, in page order, of
\* the pages before it.
C5_PagesInOrderUntilEmpty ==
  /\ pc \in {"page", "page_wait", "process"} =>
       /\ pageLog = [k \in 1..Len(pageLog) |-> k]
       /\ \A k \in 1..Len(served) : (served[k] = <<>>) <=> (pc = "process" /\ k = Len(served))
  /\ pc = "page" => (Len(served) = Len(pageLog) /\ page = Len(pageLog) + 1)
  /\ pc = "page_wait" =>
       (Len(served) + 1 = Len(pageLog) /\ page = Len(pageLog)
          /\ inflight = [kind |-> "page", repo |-> repo, page |-> page])
  /\ pc \in {"page", "page_wait"} => fetched = Concat(served)
  /\ pc = "process" =>
       /\ Len(pageLog) = Len(served)
       /\ served[Len(served)] = <<>>
       /\ rawReleases = Concat(SubSeq(served, 1, Len(served) - 1))

C5_Witness ==
  /\ pc = "process"
  /\ Len(served) = 3
  /\ Len(served[1]) = 2
  /\ Len(rawReleases) = 3

\* C6: the list handed to the enricher and to the exporter is a permutation
\* of the repository's normalized records in non-decreasing published_at
\* order in which records with the same published_at keep their fetch order.
C6_StableChronologicalOrder ==
  LET norm == processReleases(rawReleases)
      FetchPos(r) == CHOOSE k \in 1..Len(norm) : norm[k].id = r.id
  IN /\ pc \in {"enrich", "repo"} =>
          /\ Len(releases) = Len(norm)
          /\ {Strip(releases[k]) : k \in 1..Len(releases)} =
               {norm[k] : k \in 1..Len(norm)}
          /\ \A a, b \in 1..Len(releases) :
               a < b =>
                 /\ GetTime(releases[a].published_at) <=
                      GetTime(releases[b].published_at)
                 /\ (GetTime(releases[a].published_at) =
                       GetTime(releases[b].published_at)
                     => FetchPos(releases[a]) < FetchPos(releases[b]))
     /\ (pc \in {"repo", "done"} /\ repo > 1) =>
          /\ Len(allReleases) >= Len(releases)
          /\ SubSeq(allReleases, Len(allReleases) - Len(releases) + 1,
                    Len(allReleases)) = releases

C6_Witness ==
  /\ pc = "enrich"
  /\ Len(releases) = 3
  /\ releases # processReleases(rawReleases)
  /\ \E a \in 1..2 :
       /\ GetTime(releases[a].published_at) = GetTime(releases[a + 1].published_at)
       /\ rawReleases[1].id = releases[a].id

\* C7: every commit-range lookup is made with head = the target_commitish of
\* the record being enriched and base = the target_commitish of the record
\* just before it in the chronologically sorted list (the record's own for
\* the first one).
C7_CompareUsesChronologicalPredecessor ==
  inflight.kind = "compare" =>
    /\ pc = "commit_wait"
    /\ i < Len(releases)
    /\ \A a, b \in 1..Len(releases) :
         a < b => GetTime(releases[a].published_at) <=
                    GetTime(releases[b].published_at)
    /\ inflight.head = releases[i + 1].target_commitish
    /\ inflight.base = IF i = 0 THEN releases[1].target_commitish
                       ELSE releases[i].target_commitish

\* the predecessor in fetch order is another record, with another ref
C7_Witness ==
  /\ inflight.kind = "compare"
  /\ i > 0
  /\ inflight.base # inflight.head
  /\ \E k \in 2..Len(rawReleases) :
       /\ rawReleases[k].id = releases[i + 1].id
       /\ rawReleases[k - 1].id # releases[i].id
       /\ rawReleases[k - 1].target_commitish # inflight.base

\* C8: every closed-issue and closed-PR search has end = the published day
\* of the record being enriched and start = the published day of its
\* chronological predecessor (its own without one), replaced by end when it
\* is later; start <= end always, and the PR search uses the window of the
\* issue search of the same release.
C8_SearchWindow ==
  inflight.kind = "search" =>
    LET end == DateOf(releases[i + 1].published_at)
        prev == IF i = 0 THEN end ELSE DateOf(releases[i].published_at)
    IN /\ inflight.end = end
       /\ inflight.start = (IF prev > end THEN end ELSE prev)
       /\ inflight.start <= inflight.end
       /\ inflight.type \in {"issue", "pr"}
       /\ issueWin = <<inflight.start, inflight.end>>

\* the predecessor's day is later than the record's own: the clamp acts
C8_Witness ==
  /\ inflight.kind = "search"
  /\ inflight.type = "pr"
  /\ i > 0
  /\ DateOf(releases[i].published_at) > DateOf(releases[i + 1].published_at)
  /\ inflight.start = inflight.end

\* C9: whatever the current and the previous tag are, at most one of the
\* three flags computeReleaseFlags returns is true.
C9_FlagsMutuallyExclusive ==
  cpc = "ret" =>
    Cardinality({f \in {"is_major_release", "is_minor_release",
                        "is_patch_release"} : flags[f]}) <= 1

C9_Witness ==
  /\ cpc = "ret"
  /\ parseVersionTag(currTag) = <<1, 1, 1>>
  /\ parseVersionTag(prevTag) = <<0, 0, 0>>
  /\ flags.is_major_release

\* C10: for two tags that both contain a major.minor.patch triple the flag
\* set is the one of the first component, in the order major, minor, patch,
\* at which the triples differ, and none when the triples are equal.
C10_FirstDifferingComponent ==
  LET curr == parseVersionTag(currTag)
      prev == parseVersionTag(prevTag)
  IN (cpc = "ret" /\ curr # Null /\ prev # Null) =>
       LET diff == {k \in 1..3 : curr[k] # prev[k]}
           first == IF diff = {} THEN 0
                    ELSE CHOOSE k \in diff : \A j \in diff : k <= j
       IN flags = Flags(first = 1, first = 2, first = 3)

C10_Witness ==
  /\ cpc = "ret"
  /\ parseVersionTag(currTag) = <<1, 0, 1>>
  /\ parseVersionTag(prevTag) = <<1, 0, 0>>
  /\ flags = Flags(FALSE, FALSE, TRUE)

\* C11: when the current tag is absent or holds no major.minor.patch triple,
\* all three flags are false whatever the previous tag is, also when there
\* is no previous tag.
C11_UnparsableCurrentTag ==
  (cpc = "ret" /\ (currTag = Null \/ parseVersionTag(currTag) = Null)) =>
    flags = NoFlags

C11_Witness ==
  /\ cpc = "ret"
  /\ currTag = <<"l", "a", "t", "e", "s", "t">>
  /\ prevTag = Null
  /\ flags = NoFlags

\* C12: a release is classified major by the no-predecessor rule only when
\* it is the first of the sequence; a release whose predecessor has an
\* unparsable, empty or absent tag gets all three flags false.
C12_PredecessorWithoutVersion ==
  pc = "sort" =>
    \A k \in 2..Len(releases) :
      (Falsy(rawReleases[k - 1].tag_name)
         \/ parseVersionTag(rawReleases[k - 1].tag_name) = Null)
      => FlagsOf(releases[k]) = NoFlags

RECURSIVE SplitLines(_)
\* the lines of a text, read back at its line feeds
SplitLines(text) ==
  IF \A k \in 1..Len(text) : text[k] # "\n" THEN <<text>>
  ELSE LET n == CHOOSE k \in 1..Len(text) :
                  text[k] = "\n" /\ \A j \in 1..(k - 1) : text[j] # "\n"
       IN <<SubSeq(text, 1, n - 1)>> \o SplitLines(SubSeq(text, n + 1, Len(text)))

\* the line of the table that stands for the record r
RowOf(r) == Join([h \in 1..Len(headers) |-> Cell(r, headers[h])], ",")

\* C13: when the run completes the written table is one header line and
\* then exactly one line per fetched release: the lines are, repository by
\* repository in the order of the repository list, the repository's records
\* in its chronological order; no line is moved, dropped or merged, also
\* when two repositories have a release with the same numeric id.
C13_OneRowPerFetchedRelease ==
  pc = "done" =>
    LET lines == SplitLines(output.text)
        perRepo == [r \in 1..NumRepos |->
                      SortByPublished(processReleases(rawLog[r]))]
        expected == Concat(perRepo)
    IN /\ Len(rawLog) = NumRepos
       /\ Len(lines) = 1 + Len(Concat(rawLog))
       /\ lines[1] = Join([h \in 1..Len(headers) |-> <<headers[h]>>], ",")
       /\ Len(allReleases) = Len(expected)
       /\ \A k \in 1..Len(expected) :
            /\ Strip(allReleases[k]) = expected[k]
            /\ lines[k + 1] = RowOf(allReleases[k])

C13_Witness ==
  /\ pc = "done"
  /\ Len(rawLog[1]) = 3
  /\ Len(rawLog[2]) = 2
  /\ \E a \in 1..3, b \in 4..5 : allReleases[a].id = allReleases[b].id
  /\ \E r \in 1..NumRepos :
       SortByPublished(processReleases(rawLog[r])) # processReleases(rawLog[r])

\* the number of double quotes among the first k characters of a text
QuotesBefore(text, k) == Cardinality({j \in 1..k : text[j] = "\""})

RECURSIVE Collapse(_)
\* the inside of a quoted field read back: two quotes stand for one, and a
\* quote that stands alone is kept as the mark "?" of a broken field
Collapse(s) ==
  IF s = <<>> THEN <<>>
  ELSE IF s[1] # "\"" THEN <<s[1]>> \o Collapse(Tail(s))
  ELSE IF Len(s) >= 2 /\ s[2] = "\"" THEN <<"\"">> \o Collapse(SubSeq(s, 3, Len(s)))
  ELSE <<"?">> \o Collapse(Tail(s))

\* one field as a reader of comma-separated values takes it
ReadField(f) ==
  IF Len(f) >= 2 /\ f[1] = "\"" /\ f[Len(f)] = "\""
  THEN [quoted |-> TRUE, value |-> Collapse(SubSeq(f, 2, Len(f) - 1)),
        open |-> QuotesBefore(f, Len(f)) % 2 = 1]
  ELSE [quoted |-> FALSE, value |-> f, open |-> QuotesBefore(f, Len(f)) > 0]

\* the fields of one line of a table: a comma ends a field when it is
\* outside quotes, that is when an even number of quotes precedes it
ReadRow(text) ==
  LET cuts == {k \in 1..Len(text) :
                 text[k] = "," /\ QuotesBefore(text, k) % 2 = 0}
      n == Cardinality(cuts)
      cut(j) == IF j = 0 THEN 0
                ELSE IF j = n + 1 THEN Len(text) + 1
                ELSE CHOOSE p \in cuts : Cardinality({q \in cuts : q < p}) = j - 1
  IN [j \in 1..(n + 1) |-> ReadField(SubSeq(text, cut(j - 1) + 1, cut(j) - 1))]

ColumnOf(h) == CHOOSE c \in 1..Len(headers) : headers[c] = h

EmptyField == [quoted |-> FALSE, value |-> <<>>, open |-> FALSE]

\* C14: the table has, for every string field that holds a comma or a
\* double quote, the field in double quotes with each inner double quote
\* doubled, so that the line still reads as one field per column and the
\* field reads back as the string; a null or undefined field is the empty
\* field.
C14_QuotingAndEmptyFields ==
  cpc = "exported" =>
    LET r == releases[1]
        line == SplitLines(output.text)[2]
        row == ReadRow(line)
        doubled(s) == Len(SelectSeq(s, LAMBDA c : c = "\""))
    IN /\ Len(row) = Len(headers)
       /\ \A h \in StringColumns :
            IF r[h] = Null THEN row[ColumnOf(h)] = EmptyField
            ELSE (\E k \in 1..Len(r[h]) : r[h][k] \in {",", "\""}) =>
                   /\ row[ColumnOf(h)] = [quoted |-> TRUE, value |-> r[h], open |-> FALSE]
                   /\ Cell(r, h)[1] = "\"" /\ Cell(r, h)[Len(Cell(r, h))] = "\""
                   /\ doubled(Cell(r, h)) = 2 + 2 * doubled(r[h])
       /\ \A h \in NullableColumns :
            r[h] = NullNum => row[ColumnOf(h)] = EmptyField

C14_Witness ==
  /\ cpc = "exported"
  /\ releases[1].name = <<"\"", ",">>
  /\ releases[1].tag_name = Null
  /\ releases[1].num_commits_since_last_release = NullNum
  /\ releases[1].num_issues_closed = NullNum
  /\ output.text # <<>>

ActivityFields ==
  {"num_commits_since_last_release", "num_issues_closed", "num_pull_requests"}

\* positions of main inside enrichReleaseDetails
Enriching ==
  pc \in {"enrich", "commit_wait", "issue", "issue_wait", "pr", "pr_wait", "delay"}

\* C15: a step of the enrichment keeps the length and the order of the
\* record sequence and every field that is no activity field; an activity
\* field only changes from null to a number, and a field that holds a
\* number is not changed again, neither by the rest of the enrichment nor
\* after the records were accumulated; when the enrichment returns, every
\* activity field of every record holds a number.
C15_ActivityFieldsFilledOnce ==
  [][ /\ Enriching =>
           /\ Len(releases') = Len(releases)
           /\ \A k \in 1..Len(releases) :
                /\ Strip(releases'[k]) = Strip(releases[k])
                /\ \A f \in ActivityFields :
                     /\ releases'[k][f] # releases[k][f] =>
                          (releases[k][f] = NullNum /\ releases'[k][f] # NullNum)
                     /\ releases[k][f] # NullNum =>
                          releases'[k][f] = releases[k][f]
      /\ (Enriching /\ pc' = "repo") =>
           /\ \A k \in 1..Len(releases) : Enriched(releases[k])
           /\ allReleases' = allReleases \o releases
      /\ /\ Len(allReleases') >= Len(allReleases)
         /\ SubSeq(allReleases', 1, Len(allReleases)) = allReleases
    ]_vars

C15_Witness ==
  /\ pc = "delay"
  /\ i = 1
  /\ Len(releases) = 3
  /\ Enriched(releases[1]) /\ Enriched(releases[2])
  /\ releases[2].num_commits_since_last_release # Num(0)
  /\ ~Enriched(releases[3])
  /\ releases[3].num_commits_since_last_release = NullNum

\* the events of the trace that are network calls, and those that are delays
Calls == {j \in 1..Len(trace) : trace[j].sent}
Delays == {j \in 1..Len(trace) : trace[j].op = "delay"}

\* C16: whenever enrichReleaseDetails is at the head of its loop, having
\* finished i releases, it has made exactly 3 * i network calls and i
\* delays, whatever the records hold.
C16_ThreeCallsPerRelease ==
  pc = "enrich" =>
    /\ Cardinality(Calls) = 3 * i
    /\ Cardinality(Delays) = i

\* C16 (amended): for each finished release there are exactly one delay,
\* one closed-issue search and one closed-PR search, and one commit-range
\* request exactly when neither ref of the comparison is empty: a release
\* with an empty base or head ref costs two network calls, not three.
C16_CallsPerRelease ==
  pc = "enrich" =>
    /\ Cardinality(Delays) = i
    /\ \A k \in 0..(i - 1) :
         /\ \A op \in {"compare", "issue", "pr", "delay"} :
              Cardinality({j \in 1..Len(trace) :
                             trace[j].op = op /\ trace[j].i = k}) = 1
         /\ \A j \in 1..Len(trace) :
              trace[j].i = k =>
                trace[j].sent =
                  CASE trace[j].op = "compare" ->
                         (baseCommit(releases, k) # <<>> /\ headCommit(releases, k) # <<>>)
                    [] trace[j].op = "delay" -> FALSE
                    [] OTHER -> TRUE
    /\ Len(trace) = 4 * i
    /\ Cardinality(Calls) =
         3 * i - Cardinality({k \in 0..(i - 1) :
                                baseCommit(releases, k) = <<>>
                                  \/ headCommit(releases, k) = <<>>})

C16_Witness ==
  /\ pc = "enrich"
  /\ i = 2 /\ Len(releases) = 2
  /\ releases[1].target_commitish = <<>>
  /\ releases[2].target_commitish # <<>>
  /\ Cardinality(Calls) = 4
  /\ Cardinality(Delays) = 2

\* the events of one release, in the order of the loop body
LoopOrder == <<"compare", "issue", "pr", "delay">>

IsLookup(e) == e.op \in {"compare", "issue", "pr"}

\* C17: the events of the enrichment of one repository are, release after
\* release in index order, the commit-range lookup, the issue search, the
\* PR search and the delay; so between a lookup of one release and a lookup
\* of the next lies the delay of the former, and a lookup that is waiting
\* for its response belongs to the release the loop is at.
C17_LookupsThenDelay ==
  /\ \A j \in 1..Len(trace) :
       /\ trace[j].op = LoopOrder[((j - 1) % 4) + 1]
       /\ trace[j].i = (j - 1) \div 4
  /\ \A a, b \in 1..Len(trace) :
       (a < b /\ IsLookup(trace[a]) /\ IsLookup(trace[b])
          /\ trace[b].i = trace[a].i + 1) =>
         \E d \in (a + 1)..(b - 1) :
           trace[d].op = "delay" /\ trace[d].i = trace[a].i
  /\ pc \in {"commit_wait", "issue", "issue_wait", "pr", "pr_wait", "delay"} =>
       (trace # <<>> /\ trace[Len(trace)].i = i)

C17_Witness ==
  /\ pc = "issue_wait"
  /\ i = 2
  /\ Len(trace) = 10
  /\ trace[8] = [op |-> "delay", i |-> 1, sent |-> FALSE]
  /\ trace[9] = [op |-> "compare", i |-> 2, sent |-> TRUE]

\* C18: never more than one request is outstanding, and a request is
\* outstanding exactly while main awaits a response; while a page of
\* repository r is requested, every earlier repository has been fetched,
\* enriched to its last release and last delay, and accumulated; while main
\* is inside the enrichment of a repository, the listing of that repository
\* has ended with the empty page and nothing of it is requested any more.
C18_OneRequestNoOverlap ==
  /\ outstanding \in {0, 1}
  /\ (outstanding = 1) <=> (inflight # NoReq)
  /\ (outstanding = 1) <=>
       (pc \in {"page_wait", "commit_wait", "issue_wait", "pr_wait"})
  /\ pc \in {"page", "page_wait"} =>
       /\ Len(rawLog) = repo - 1
       /\ Len(allReleases) = Len(Concat(rawLog))
       /\ \A k \in 1..Len(allReleases) : Enriched(allReleases[k])
       /\ (repo > 1 /\ rawLog[repo - 1] # <<>>) =>
            /\ Len(trace) = 4 * Len(rawLog[repo - 1])
            /\ trace[Len(trace)] =
                 [op |-> "delay", i |-> Len(rawLog[repo - 1]) - 1, sent |-> FALSE]
       /\ pc = "page_wait" => (inflight.kind = "page" /\ inflight.repo = repo)
  /\ Enriching =>
       /\ served # <<>> /\ served[Len(served)] = <<>>
       /\ Len(pageLog) = Len(served)
       /\ Len(rawLog) = repo /\ rawLog[repo] = rawReleases
       /\ Len(releases) = Len(rawReleases)
       /\ inflight # NoReq =>
            (inflight.kind \in {"compare", "search"} /\ inflight.repo = repo)

C18_Witness ==
  /\ pc = "page_wait"
  /\ inflight = [kind |-> "page", repo |-> 2, page |-> 1]
  /\ outstanding = 1
  /\ Len(rawLog[1]) = 3
  /\ Len(allReleases) = 3
  /\ Len(trace) = 12

\* C19: no release whose optional fields are absent or null makes the
\* pipeline raise: the run never ends by an exception of its own, and at the
\* head of the enrichment loop the release at hand and its predecessor can
\* be taken through the loop body.
C19_AbsentFieldsDoNotRaise ==
  /\ pc # "crashed"
  /\ (pc = "enrich" /\ i < Len(releases)) => ~SliceThrows(releases, i)

\* positions at which main, or the function it awaits, has a next step
Running ==
  pc \in {"repo", "page", "page_wait", "process", "sort", "enrich",
          "commit_wait", "issue", "issue_wait", "pr", "pr_wait", "delay"}

\* the run has ended: main can take no further step
Final == ~Running

\* C20: a run that has ended has either written the output or was aborted
\* by a failed or malformed page response; the output is written only by a
\* run that fetched, enriched and accumulated every repository of the list,
\* and then no exported record has a null activity field.
C20_TwoFinalStates ==
  /\ Final => pc \in {"done", "aborted"}
  /\ (pc = "aborted") => status \in {"fail", "malformed"}
  /\ output.written =>
       /\ pc = "done"
       /\ Len(rawLog) = NumRepos
       /\ Len(allReleases) = Len(Concat(rawLog))
       /\ \A k \in 1..Len(allReleases) : Enriched(allReleases[k])

=============================================================================
